---- MODULE Spec2Model ----
(***************************************************************************)
(* A model of the linktree-demo Cloudflare Worker (src/index.js).          *)
(*                                                                         *)
(* src/index.js holds the worker as committed (lines 1-19: every request   *)
(* is answered with the JSON catalog) followed by the tutorial that grows  *)
(* it into the routed worker (lines 22-393: JSON on a path ending in       *)
(* /links, the rewritten template page on every other path).  The model    *)
(* covers the revisions of the worker the file contains; `script` says     *)
(* which one is loaded.                                                    *)
(*                                                                         *)
(* The platform (fetch events, respondWith, fetch, URL, JSON.stringify,    *)
(* HTMLRewriter) is modelled by what the calls in the source rely on.      *)
(***************************************************************************)
EXTENDS Integers, Sequences, FiniteSets, TLC

(***************************************************************************)
(* Bounds.                                                                 *)
(***************************************************************************)
\* Number of fetch events delivered to the worker in one run.
MaxRequests == 2

(***************************************************************************)
(* Strings.                                                                *)
(***************************************************************************)
CharAt(s, i) == SubSeq(s, i, i)

\* String.prototype.endsWith (lines 137, 166).
EndsWith(s, suffix) ==
  /\ Len(suffix) <= Len(s)
  /\ SubSeq(s, Len(s) - Len(suffix) + 1, Len(s)) = suffix

StartsWithAt(s, i, prefix) ==
  /\ i + Len(prefix) - 1 <= Len(s)
  /\ SubSeq(s, i, i + Len(prefix) - 1) = prefix

\* First index >= i at which `c` occurs in s, or Len(s) + 1.
RECURSIVE IndexFrom(_, _, _)
IndexFrom(s, i, c) ==
  IF i > Len(s) THEN Len(s) + 1
  ELSE IF StartsWithAt(s, i, c) THEN i
  ELSE IndexFrom(s, i + 1, c)

Min(a, b) == IF a <= b THEN a ELSE b

\* new URL(u).pathname (lines 136, 165): what follows the authority, up to
\* the query or the fragment.
Pathname(u) ==
  LET auth  == IndexFrom(u, 1, "://") + 3
      start == IndexFrom(u, auth, "/")
      stop  == Min(IndexFrom(u, start, "?"), IndexFrom(u, start, "#"))
  IN  IF start > Len(u) THEN "/" ELSE SubSeq(u, start, stop - 1)

(***************************************************************************)
(* The catalog.                                                            *)
(***************************************************************************)
\* The array literal inside handleRequest (lines 10-15).
InlineLinks ==
  << [name |-> "Twitter",   url |-> "https://twitter.com/lauragift_"],
     [name |-> "Youtube",   url |-> "https://youtube.com/egwuenugift"],
     [name |-> "LinkedIn",  url |-> "https://linkedin.com/egwuenugift"],
     [name |-> "Instagram", url |-> "https://instagram.com/thegiftcode_"] >>

\* The module-level array of the tutorial (lines 87-104).
Links ==
  << [name |-> "Twitter",   url |-> "https://twitter.com/lauragift_"],
     [name |-> "Youtube",   url |-> "https://youtube.com/egwuenugift"],
     [name |-> "LinkedIn",  url |-> "https://www.linkedin.com/in/egwuenugift/"],
     [name |-> "Instagram", url |-> "https://instagram.com/thegiftcode_"] >>

\* The svg markup of an entry (lines 284, 288), cut down to its root tag and
\* title: the path data plays no part in any operation.
Svg(name) == "<svg role=\"img\"><title>" \o name \o "</title></svg>"

WithSvg(link) ==
  [k \in DOMAIN link \cup {"svg"} |->
     IF k = "svg" THEN Svg(link.name) ELSE link[k]]

\* The array "updated with svg for each link" (lines 281-290).  The listing
\* shows the first and the last entry and elides the ones between (line
\* 286): `elided` says whether the elided entries were given an svg.
SvgLinks(elided) ==
  [i \in 1..Len(Links) |->
     IF i = 1 \/ i = Len(Links) \/ elided THEN WithSvg(Links[i]) ELSE Links[i]]

\* Property order of a link object, as its literal lists them.
KeyOrder == <<"name", "url", "svg">>

\* link.k as a template literal prints it (lines 201, 299): a missing
\* property is undefined.
Prop(link, k) == IF k \in DOMAIN link THEN link[k] ELSE "undefined"

(***************************************************************************)
(* JSON.stringify (lines 10, 120).                                         *)
(***************************************************************************)
RECURSIVE Escape(_, _)
Escape(s, i) ==
  IF i > Len(s) THEN ""
  ELSE LET c == CharAt(s, i)
       IN  (IF c = "\"" THEN "\\\"" ELSE IF c = "\\" THEN "\\\\" ELSE c)
             \o Escape(s, i + 1)

Quote(s) == "\"" \o Escape(s, 1) \o "\""

RECURSIVE StringifyKeys(_, _, _)
StringifyKeys(link, i, first) ==
  IF i > Len(KeyOrder) THEN ""
  ELSE IF KeyOrder[i] \notin DOMAIN link THEN StringifyKeys(link, i + 1, first)
  ELSE (IF first THEN "" ELSE ",")
         \o Quote(KeyOrder[i]) \o ":" \o Quote(link[KeyOrder[i]])
         \o StringifyKeys(link, i + 1, FALSE)

StringifyObject(link) == "{" \o StringifyKeys(link, 1, TRUE) \o "}"

RECURSIVE StringifyItems(_, _)
StringifyItems(arr, i) ==
  IF i > Len(arr) THEN ""
  ELSE (IF i = 1 THEN "" ELSE ",") \o StringifyObject(arr[i])
         \o StringifyItems(arr, i + 1)

JSONStringify(arr) == "[" \o StringifyItems(arr, 1) \o "]"

(***************************************************************************)
(* Documents and the HTMLRewriter element API.                             *)
(*                                                                         *)
(* A document is the sequence of its elements in the order of their start  *)
(* tags.  An element has a tag, an id, the tag of its parent, attributes   *)
(* (a function on the names that are present) and content: a sequence of   *)
(* nodes [html, s], html telling raw markup from text.                     *)
(***************************************************************************)
NoAttrs == <<>>

El(tag, id, parent, attrs, content) ==
  [tag |-> tag, id |-> id, parent |-> parent, attrs |-> attrs,
   content |-> content]

Raw(s)  == [html |-> TRUE,  s |-> s]
Text(s) == [html |-> FALSE, s |-> s]

\* element.removeAttribute(name) (line 231).
removeAttribute(el, name) ==
  [el EXCEPT !.attrs = [a \in DOMAIN el.attrs \ {name} |-> el.attrs[a]]]

\* element.setAttribute(name, value) (lines 256, 325).
setAttribute(el, name, value) ==
  [el EXCEPT !.attrs = (name :> value) @@ el.attrs]

\* element.append(content, { html: true }) (lines 201, 299).
append(el, content) ==
  [el EXCEPT !.content = Append(el.content, Raw(content))]

\* element.prepend(content) (line 265): no html option, so text.
prepend(el, content) ==
  [el EXCEPT !.content = <<Text(content)>> \o el.content]

\* element.setInnerContent(content, { html: true }) (line 334).
setInnerContent(el, content) ==
  [el EXCEPT !.content = <<Raw(content)>>]

(***************************************************************************)
(* The element handlers of the tutorial.                                   *)
(***************************************************************************)
\* Faulty variant of LinkAnchor: the icon where the name belongs.
LinkAnchor_iconText(link) ==
  "<a href='" \o Prop(link, "url") \o "' target='_blank'>"
    \o Prop(link, "svg") \o "</a>"

\* The markup LinksTransformer appends for one link (line 201).
LinkAnchor(link) ==
  "<a href='" \o Prop(link, "url") \o "' target='_blank'>"
    \o Prop(link, "name") \o "</a>"

\* The markup SocialTransformer appends for one link (line 299).
SocialAnchor(link) ==
  "<a href='" \o Prop(link, "url") \o "' target='_blank'>"
    \o Prop(link, "svg") \o "</a>"

\* LinksTransformer.element (lines 198-203): for (let link of links).  The
\* loop reads the module-level `links`, the array the constructor was given.
RECURSIVE LinksLoop(_, _, _)
LinksLoop(el, lks, i) ==
  IF i > Len(lks) THEN el
  ELSE LinksLoop(append(el, LinkAnchor(lks[i])), lks, i + 1)

LinksTransformer(el, lks) == LinksLoop(el, lks, 1)

\* SocialTransformer.element (lines 297-301): for (let link of links).
RECURSIVE SocialLoop(_, _, _)
SocialLoop(el, lks, i) ==
  IF i > Len(lks) THEN el
  ELSE SocialLoop(append(el, SocialAnchor(lks[i])), lks, i + 1)

SocialTransformer(el, lks) == SocialLoop(el, lks, 1)

\* DisplayTransformer.element (lines 230-232).
DisplayTransformer(el) == removeAttribute(el, "style")

\* ImageTransformer.element (lines 255-257).
ImageTransformer(el, name, value) == setAttribute(el, name, value)

\* UserNameTransformer.element (lines 264-266).
UserNameTransformer(el, name) == prepend(el, name)

\* BackgroundTransformer.element (lines 324-326).
BackgroundTransformer(el, name, value) == setAttribute(el, name, value)

\* MetaTitleTransformer.element (lines 333-335).
MetaTitleTransformer(el, name) == setInnerContent(el, name)

AvatarUrl ==
  "https://res.cloudinary.com/lauragift/image/upload/w_1000,ar_1:1,c_fill,g_auto/v1624353138/4EFA5623-1143-4480-A319-F5389240D87A_hgsluf.jpg"

TemplateUrl == "https://static-links-page.signalnerve.workers.dev"

\* A selector: tag, id and parent tag, "" where the selector says nothing.
Sel(tag, id, parent) == [tag |-> tag, id |-> id, parent |-> parent]

On(sel, class, name, value) ==
  [sel |-> sel, class |-> class, name |-> name, value |-> value]

\* Faulty variant of Registrations: the second style registration names
\* div#profile again instead of div#social.
Registrations_profileTwice ==
  << On(Sel("div", "links", ""),   "LinksTransformer", "", ""),
     On(Sel("div", "social", ""),  "SocialTransformer", "", ""),
     On(Sel("div", "profile", ""), "DisplayTransformer", "", ""),
     On(Sel("div", "profile", ""), "DisplayTransformer", "", ""),
     On(Sel("img", "avatar", ""),  "ImageTransformer", "src", AvatarUrl),
     On(Sel("h1", "name", ""),     "UserNameTransformer", "Gift Egwuenu", ""),
     On(Sel("title", "", "head"),  "MetaTitleTransformer", "Linktree+", ""),
     On(Sel("body", "", ""),       "BackgroundTransformer", "class",
        "bg-purple-800") >>

\* The registrations of the final handleHTMLRequest, in order (lines
\* 367-375).
Registrations ==
  << On(Sel("div", "links", ""),   "LinksTransformer", "", ""),
     On(Sel("div", "social", ""),  "SocialTransformer", "", ""),
     On(Sel("div", "profile", ""), "DisplayTransformer", "", ""),
     On(Sel("div", "social", ""),  "DisplayTransformer", "", ""),
     On(Sel("img", "avatar", ""),  "ImageTransformer", "src", AvatarUrl),
     On(Sel("h1", "name", ""),     "UserNameTransformer", "Gift Egwuenu", ""),
     On(Sel("title", "", "head"),  "MetaTitleTransformer", "Linktree+", ""),
     On(Sel("body", "", ""),       "BackgroundTransformer", "class",
        "bg-purple-800") >>

\* Whether an element matches a selector: tag#id, or parent > tag.
Matches(sel, el) ==
  /\ sel.tag = el.tag
  /\ sel.id = "" \/ sel.id = el.id
  /\ sel.parent = "" \/ sel.parent = el.parent

\* The call of a registered handler's element method.
Invoke(h, el, lks) ==
  CASE h.class = "LinksTransformer"      -> LinksTransformer(el, lks)
    [] h.class = "SocialTransformer"     -> SocialTransformer(el, lks)
    [] h.class = "DisplayTransformer"    -> DisplayTransformer(el)
    [] h.class = "ImageTransformer"      -> ImageTransformer(el, h.name, h.value)
    [] h.class = "UserNameTransformer"   -> UserNameTransformer(el, h.name)
    [] h.class = "MetaTitleTransformer"  -> MetaTitleTransformer(el, h.name)
    [] h.class = "BackgroundTransformer" ->
         BackgroundTransformer(el, h.name, h.value)

\* HTMLRewriter.transform (line 376): one forward pass over the elements;
\* on each, every registered handler whose selector matches is called, in
\* the order of registration.  `fired` logs the calls as <<element, handler>>.
RECURSIVE Rewrite(_, _, _, _, _)
Rewrite(st, handlers, lks, i, j) ==
  IF i > Len(st.doc) THEN st
  ELSE IF j > Len(handlers) THEN Rewrite(st, handlers, lks, i + 1, 1)
  ELSE IF Matches(handlers[j].sel, st.doc[i])
    THEN Rewrite([doc   |-> [st.doc EXCEPT
                               ![i] = Invoke(handlers[j], st.doc[i], lks)],
                  fired |-> Append(st.fired, <<i, j>>)],
                 handlers, lks, i, j + 1)
  ELSE Rewrite(st, handlers, lks, i, j + 1)

transform(handlers, doc, lks) ==
  Rewrite([doc |-> doc, fired |-> <<>>], handlers, lks, 1, 1)

(***************************************************************************)
(* Inputs: requests, and what the template origin answers.                 *)
(***************************************************************************)
Urls ==
  { "https://example.com/links",
    "https://example.com/api/links",
    "https://example.com/links?next=/",
    "https://example.com/",
    "https://example.com/links/",
    "https://example.com/linksx" }

\* The fetch events tried: a GET of every URL, and a POST of one URL on
\* each side of the routing.
Events ==
  {<<u, "GET">> : u \in Urls}
    \cup {<<"https://example.com/links", "POST">>,
          <<"https://example.com/", "POST">>}

\* The page the tutorial describes (lines 224-226, 245, 278, 316): a title,
\* a body, div#profile and div#social hidden by a style attribute, the
\* avatar and the name inside the profile, and an empty div#links.
PageDoc ==
  << El("title", "", "head", NoAttrs, <<Raw("Old Title")>>),
     El("body", "", "html", "class" :> "bg-gray-900", <<>>),
     El("div", "profile", "body", "style" :> "display:none", <<>>),
     El("img", "avatar", "div", "src" :> "placeholder.png", <<>>),
     El("h1", "name", "div", NoAttrs, <<>>),
     El("div", "links", "body", NoAttrs, <<>>),
     El("div", "social", "body", "style" :> "display:none", <<>>) >>

\* A page that differs where the selectors look: two div#social, content
\* already present, elements that match no selector, no avatar.
OtherDoc ==
  << El("title", "", "svg", NoAttrs, <<Raw("Icon")>>),
     El("body", "", "html", NoAttrs, <<>>),
     El("div", "social", "body",
        ("style" :> "color:red;display:none") @@ ("class" :> "row"), <<>>),
     El("div", "profile", "body", "class" :> "card", <<>>),
     El("h1", "name", "div", NoAttrs, <<Raw("<small>hi</small>")>>),
     El("div", "links", "body", NoAttrs, <<>>),
     El("div", "other", "body", "style" :> "display:none", <<>>),
     El("div", "social", "body", "style" :> "display:none",
        <<Raw("<p>follow</p>")>>) >>

\* The page of an origin that answers with an error status.
ErrorDoc ==
  << El("title", "", "head", NoAttrs, <<Raw("500")>>),
     El("body", "", "html", NoAttrs, <<>>),
     El("h1", "", "body", NoAttrs, <<Raw("Internal Server Error")>>) >>

\* What the fetch of the template resolves with: a status and a document.
Upstreams ==
  { [status |-> 200, doc |-> PageDoc],
    [status |-> 200, doc |-> OtherDoc],
    [status |-> 500, doc |-> ErrorDoc] }

(***************************************************************************)
(* State.                                                                  *)
(***************************************************************************)
VARIABLES
  script,   \* the revision of the worker that is loaded
  links,    \* the module-level `links` (<<>> where the script has none)
  loaded,   \* history: `links` as the module's load left it
  reqs      \* the fetch events so far, in order of arrival

vars == <<script, links, loaded, reqs>>

Scripts == {"deployed", "jsonOnly", "linksOnly", "routed"}

\* A fetch event as it arrives: nothing has answered it yet.
\*   responder   "none", "json" or "html": the handler it was given to
\*   responded   the number of respondWith calls
\*   fetches     the URLs of the outbound fetches issued for it
\*   fetch       "none", "pending", "resolved" or "rejected"
\*   upstream    the status the template fetch resolved with (0: none)
\*   template    the document the template fetch resolved with
\*   outcome     "pending", "response" (a Response reached the caller),
\*               "error" (the promise given to respondWith rejected) or
\*               "passthrough" (no respondWith: the worker did not answer)
\*   status, contentType, text, doc   the Response: text is a string body,
\*               doc the body of a rewritten document
\*   fired       the handler calls made while the body was rewritten
Event(url, method) ==
  [url |-> url, method |-> method, responder |-> "none", responded |-> 0,
   fetches |-> <<>>, fetch |-> "none", upstream |-> 0, template |-> <<>>,
   outcome |-> "pending", status |-> 0, contentType |-> "", text |-> "",
   doc |-> <<>>, fired |-> <<>>]

\* new Response(body, { headers: { 'content-type': ... } }) handed to the
\* caller: the status defaults to 200.
Respond(r, contentType, text, doc) ==
  [r EXCEPT !.outcome = "response", !.status = 200,
            !.contentType = contentType, !.text = text, !.doc = doc]

(***************************************************************************)
(* The handlers.                                                           *)
(***************************************************************************)
\* handleRequest (lines 9-19): the worker as committed.
handleRequest(r) ==
  Respond([r EXCEPT !.responder = "json"], "application/json",
          JSONStringify(InlineLinks), <<>>)

\* Faulty variant of handleJSONRequest: the init of the HTML responder.
handleJSONRequest_htmlInit(r, lks) ==
  Respond([r EXCEPT !.responder = "json"], "text/html",
          JSONStringify(lks), <<>>)

\* handleJSONRequest (lines 114-121).
handleJSONRequest(r, lks) ==
  Respond([r EXCEPT !.responder = "json"], "application/json",
          JSONStringify(lks), <<>>)

\* Faulty variant of handleHTMLRequest: the fetch is not awaited, the
\* Response is returned while it is still in flight.
handleHTMLRequest_noAwait(r) ==
  Respond([r EXCEPT !.responder = "html",
                    !.fetches = Append(@, TemplateUrl), !.fetch = "pending"],
          "text/html", "", <<>>)

\* handleHTMLRequest up to its await (lines 360-366): the fetch is issued.
handleHTMLRequest(r) ==
  [r EXCEPT !.responder = "html", !.fetches = Append(@, TemplateUrl),
            !.fetch = "pending"]

\* handleHTMLRequest from its await on (lines 366-377), the fetch having
\* resolved with `up`: the status of `up` is not looked at.
handleHTMLResume(r, up, lks) ==
  LET out == transform(Registrations, up.doc, lks)
  IN  Respond([r EXCEPT !.fetch = "resolved", !.upstream = up.status,
                        !.template = up.doc, !.fired = out.fired],
              "text/html", "", out.doc)

\* handleHTMLRequest when the awaited fetch rejects (line 366): the
\* exception leaves the function, the promise given to respondWith rejects.
handleHTMLReject(r) ==
  [r EXCEPT !.fetch = "rejected", !.outcome = "error"]

\* event.respondWith(promise) (lines 2, 111, 138, 167, 169).
respondWith(r) == [r EXCEPT !.responded = @ + 1]

\* The fetch listener of the worker as committed (lines 1-3).
ListenerDeployed(r) == respondWith(handleRequest(r))

\* The fetch listener of lines 110-112.
ListenerJsonOnly(r, lks) == respondWith(handleJSONRequest(r, lks))

\* The fetch listener of lines 135-140: no else branch.
ListenerLinksOnly(r, lks) ==
  IF EndsWith(Pathname(r.url), "/links")
    THEN respondWith(handleJSONRequest(r, lks))
    ELSE [r EXCEPT !.outcome = "passthrough"]

\* The fetch listener of lines 164-171.
ListenerRouted(r, lks) ==
  IF EndsWith(Pathname(r.url), "/links")
    THEN respondWith(handleJSONRequest(r, lks))
    ELSE respondWith(handleHTMLRequest(r))

(***************************************************************************)
(* Actions.                                                                *)
(***************************************************************************)
Init ==
  /\ script \in Scripts
  /\ links \in CASE script = "deployed" -> {<<>>}
                 [] script = "routed"   -> {SvgLinks(e) : e \in BOOLEAN}
                 [] OTHER               -> {Links}
  /\ loaded = links
  /\ reqs = <<>>

\* A fetch event reaches the worker as committed.
FetchDeployed ==
  /\ script = "deployed"
  /\ Len(reqs) < MaxRequests
  /\ \E e \in Events :
       reqs' = Append(reqs, ListenerDeployed(Event(e[1], e[2])))
  /\ UNCHANGED <<script, links, loaded>>

FetchJsonOnly ==
  /\ script = "jsonOnly"
  /\ Len(reqs) < MaxRequests
  /\ \E e \in Events :
       reqs' = Append(reqs, ListenerJsonOnly(Event(e[1], e[2]), links))
  /\ UNCHANGED <<script, links, loaded>>

FetchLinksOnly ==
  /\ script = "linksOnly"
  /\ Len(reqs) < MaxRequests
  /\ \E e \in Events :
       reqs' = Append(reqs, ListenerLinksOnly(Event(e[1], e[2]), links))
  /\ UNCHANGED <<script, links, loaded>>

Reverse(seq) == [n \in DOMAIN seq |-> seq[Len(seq) + 1 - n]]

\* Faulty variant of FetchRouted: the responder reverses `links` in place
\* before it reads it.
FetchRouted_reversesLinks ==
  /\ script = "routed"
  /\ Len(reqs) < MaxRequests
  /\ links' = Reverse(links)
  /\ \E e \in Events :
       reqs' = Append(reqs, ListenerRouted(Event(e[1], e[2]), links'))
  /\ UNCHANGED <<script, loaded>>

FetchRouted ==
  /\ script = "routed"
  /\ Len(reqs) < MaxRequests
  /\ \E e \in Events :
       reqs' = Append(reqs, ListenerRouted(Event(e[1], e[2]), links))
  /\ UNCHANGED <<script, links, loaded>>

\* Faulty variant of TemplateResolves: the links handler takes the entries
\* off the array as it renders them.
TemplateResolves_consumesLinks ==
  /\ \E i \in DOMAIN reqs, up \in Upstreams :
       /\ reqs[i].fetch = "pending"
       /\ reqs' = [reqs EXCEPT ![i] = handleHTMLResume(reqs[i], up, links)]
  /\ links' = <<>>
  /\ UNCHANGED <<script, loaded>>

\* The template fetch of a waiting handleHTMLRequest resolves.
TemplateResolves ==
  /\ \E i \in DOMAIN reqs, up \in Upstreams :
       /\ reqs[i].fetch = "pending"
       /\ reqs' = [reqs EXCEPT ![i] = handleHTMLResume(reqs[i], up, links)]
  /\ UNCHANGED <<script, links, loaded>>

\* The template fetch of a waiting handleHTMLRequest fails (network error).
TemplateRejects ==
  /\ \E i \in DOMAIN reqs :
       /\ reqs[i].fetch = "pending"
       /\ reqs' = [reqs EXCEPT ![i] = handleHTMLReject(reqs[i])]
  /\ UNCHANGED <<script, links, loaded>>

Next ==
  \/ FetchDeployed
  \/ FetchJsonOnly
  \/ FetchLinksOnly
  \/ FetchRouted
  \/ TemplateResolves
  \/ TemplateRejects

Spec == Init /\ [][Next]_vars

(***************************************************************************)
(* Vocabulary of the properties.                                           *)
(***************************************************************************)
\* The request URLs whose path ends in /links, and the others.
LinksUrls ==
  { "https://example.com/links",
    "https://example.com/api/links",
    "https://example.com/links?next=/" }

OtherUrls == Urls \ LinksUrls

\* The catalog a script serves: the literal of handleRequest for the worker
\* as committed, the module-level array as loaded for the others.
Catalog == IF script = "deployed" THEN InlineLinks ELSE loaded

Answered(r) == r.outcome # "pending"

\* The requests whose HTML response was built.
Rewritten == {i \in DOMAIN reqs : reqs[i].responder = "html"
                                  /\ reqs[i].outcome = "response"}

\* The elements of a template with a given tag and id.
ElementsOf(r, tag, id) ==
  {k \in DOMAIN r.template : r.template[k].tag = tag /\ r.template[k].id = id}

\* The catalog entries that have an icon, in catalog order.
WithIcon == SelectSeq(Catalog, LAMBDA link : "svg" \in DOMAIN link)

\* Reading an anchor back: <a href='HREF' ...>INNER</a>.
IsAnchor(s) == StartsWithAt(s, 1, "<a href='") /\ EndsWith(s, "</a>")

AnchorHref(s) ==
  LET from == Len("<a href='") + 1
  IN  SubSeq(s, from, IndexFrom(s, from, "'") - 1)

AnchorInner(s) ==
  SubSeq(s, IndexFrom(s, 1, ">") + 1, Len(s) - Len("</a>"))

\* What the rewriting added at the end of element k.
Appended(r, k) ==
  SubSeq(r.doc[k].content, Len(r.template[k].content) + 1,
         Len(r.doc[k].content))

\* The classes of the handlers called on element k, in the order called.
CalledOn(r, k) ==
  LET calls == SelectSeq(r.fired, LAMBDA f : f[1] = k)
  IN  [n \in DOMAIN calls |-> Registrations[calls[n][2]].class]

(***************************************************************************)
(* Reading a JSON body back (JSON.parse), for the texts JSON.stringify     *)
(* produces here: an array of objects whose values are strings.  The       *)
(* result is [ok, val, next].                                              *)
(***************************************************************************)
ParseFail == [ok |-> FALSE, val |-> <<>>, next |-> 0]

RECURSIVE ReadChars(_, _, _)
ReadChars(s, i, acc) ==
  IF i > Len(s) THEN [ok |-> FALSE, val |-> "", next |-> 0]
  ELSE LET c == CharAt(s, i)
       IN  IF c = "\"" THEN [ok |-> TRUE, val |-> acc, next |-> i + 1]
           ELSE IF c = "\\"
             THEN IF i + 1 > Len(s) THEN [ok |-> FALSE, val |-> "", next |-> 0]
                  ELSE ReadChars(s, i + 2, acc \o CharAt(s, i + 1))
           ELSE ReadChars(s, i + 1, acc \o c)

ParseString(s, i) ==
  IF StartsWithAt(s, i, "\"") THEN ReadChars(s, i + 1, "")
  ELSE [ok |-> FALSE, val |-> "", next |-> 0]

RECURSIVE ParsePairs(_, _, _)
ParsePairs(s, i, obj) ==
  LET k == ParseString(s, i)
  IN  IF ~k.ok \/ ~StartsWithAt(s, k.next, ":") THEN ParseFail
      ELSE LET v == ParseString(s, k.next + 1)
           IN  IF ~v.ok THEN ParseFail
               ELSE LET o == (k.val :> v.val) @@ obj
                    IN  IF StartsWithAt(s, v.next, ",")
                          THEN ParsePairs(s, v.next + 1, o)
                        ELSE IF StartsWithAt(s, v.next, "}")
                          THEN [ok |-> TRUE, val |-> o, next |-> v.next + 1]
                        ELSE ParseFail

ParseObject(s, i) ==
  IF ~StartsWithAt(s, i, "{") THEN ParseFail
  ELSE IF StartsWithAt(s, i + 1, "}")
    THEN [ok |-> TRUE, val |-> <<>>, next |-> i + 2]
  ELSE ParsePairs(s, i + 1, <<>>)

RECURSIVE ParseItems(_, _, _)
ParseItems(s, i, arr) ==
  LET o == ParseObject(s, i)
  IN  IF ~o.ok THEN ParseFail
      ELSE IF StartsWithAt(s, o.next, ",")
        THEN ParseItems(s, o.next + 1, Append(arr, o.val))
      ELSE IF StartsWithAt(s, o.next, "]") /\ o.next = Len(s)
        THEN [ok |-> TRUE, val |-> Append(arr, o.val), next |-> o.next + 1]
      ELSE ParseFail

JSONParse(s) ==
  IF s = "[]" THEN [ok |-> TRUE, val |-> <<>>, next |-> 3]
  ELSE IF ~StartsWithAt(s, 1, "[") THEN ParseFail
  ELSE ParseItems(s, 2, <<>>)

(***************************************************************************)
(* C1.  Every request whose path ends in /links, whatever its method, is    *)
(* answered with content-type application/json and a body that parses as   *)
(* the catalog: the same entries in the same order, at least three, each    *)
(* with a non-empty name and a non-empty url.                               *)
(***************************************************************************)
C1_LinksPathServesCatalog ==
  \A i \in DOMAIN reqs :
    reqs[i].url \in LinksUrls =>
      LET r == reqs[i]
          p == JSONParse(r.text)
      IN  /\ r.outcome = "response"
          /\ r.contentType = "application/json"
          /\ p.ok
          /\ p.val = Catalog
          /\ Len(p.val) >= 3
          /\ \A n \in DOMAIN p.val :
               /\ {"name", "url"} \subseteq DOMAIN p.val[n]
               /\ p.val[n].name # ""
               /\ p.val[n].url # ""

C1_Witness ==
  /\ script = "routed"
  /\ \E i \in DOMAIN reqs :
       /\ reqs[i].url = "https://example.com/links"
       /\ reqs[i].method = "POST"
       /\ reqs[i].outcome = "response"
       /\ "svg" \in DOMAIN JSONParse(reqs[i].text).val[1]

(***************************************************************************)
(* C2.  Every request whose path does not end in /links, once answered,     *)
(* got a response with content-type text/html, never the application/json  *)
(* catalog.                                                                 *)
(***************************************************************************)
C2_OtherPathsServeHtml ==
  \A i \in DOMAIN reqs :
    reqs[i].url \in OtherUrls /\ Answered(reqs[i]) =>
      /\ reqs[i].outcome = "response"
      /\ reqs[i].contentType = "text/html"
      /\ reqs[i].responder # "json"

(***************************************************************************)
(* C3.  Every fetch event is given to respondWith exactly once, by the     *)
(* JSON responder if its path ends in /links and by the HTML responder      *)
(* otherwise, and two requests with the same path are given to the same    *)
(* responder whatever else differs.                                         *)
(***************************************************************************)
C3_RoutingByPathAlone ==
  /\ \A i \in DOMAIN reqs :
       /\ reqs[i].responded = 1
       /\ reqs[i].responder =
            IF reqs[i].url \in LinksUrls THEN "json" ELSE "html"
  /\ \A i, j \in DOMAIN reqs :
       Pathname(reqs[i].url) = Pathname(reqs[j].url) =>
         reqs[i].responder = reqs[j].responder

(***************************************************************************)
(* C4.  The JSON responder is idempotent: whatever was handled before, all *)
(* of its responses have the same body, status and content-type, and the    *)
(* catalog it reads is left as it was loaded.                               *)
(***************************************************************************)
C4_JsonResponderIdempotent ==
  /\ links = loaded
  /\ \A i, j \in DOMAIN reqs :
       reqs[i].responder = "json" /\ reqs[j].responder = "json" =>
         /\ reqs[i].text = reqs[j].text
         /\ reqs[i].contentType = reqs[j].contentType
         /\ reqs[i].status = reqs[j].status
         /\ reqs[i].outcome = reqs[j].outcome

C4_Witness ==
  /\ Len(reqs) >= 2
  /\ reqs[1].responder = "html"
  /\ reqs[1].outcome = "response"
  /\ reqs[2].responder = "json"
  /\ reqs[2].text = JSONStringify(links)

(***************************************************************************)
(* C5.  When the template fetch fails or resolves with a non-success       *)
(* status, the caller gets an error, not a response built from the failed  *)
(* fetch, and the fetch is not issued again.                                *)
(***************************************************************************)
C5_FailedFetchIsAnError ==
  \A i \in DOMAIN reqs :
    (\/ reqs[i].fetch = "rejected"
     \/ reqs[i].fetch = "resolved" /\ reqs[i].upstream \notin 200..299) =>
      /\ reqs[i].outcome = "error"
      /\ reqs[i].doc = <<>>
      /\ Len(reqs[i].fetches) = 1

(***************************************************************************)
(* C6.  An empty div#links of the template holds, after the rewriting, one *)
(* anchor per catalog entry and nothing else, in catalog order, the n-th   *)
(* with the n-th entry's url as href and its name as text.                  *)
(***************************************************************************)
C6_LinksDivHoldsCatalog ==
  \A i \in Rewritten :
    \A k \in ElementsOf(reqs[i], "div", "links") :
      reqs[i].template[k].content = <<>> =>
        LET c == reqs[i].doc[k].content
        IN  /\ Len(c) = Len(Catalog)
            /\ \A n \in DOMAIN c :
                 /\ c[n].html
                 /\ IsAnchor(c[n].s)
                 /\ AnchorHref(c[n].s) = Catalog[n].url
                 /\ AnchorInner(c[n].s) = Catalog[n].name

C6_Witness ==
  \E i \in Rewritten :
    /\ reqs[i].template = PageDoc
    /\ Len(reqs[i].doc[6].content) = Len(Links)
    /\ AnchorInner(reqs[i].doc[6].content[3].s) = "LinkedIn"

C8_StyleClearedBothHandlersFire ==
  \A i \in Rewritten :
    /\ \A k \in ElementsOf(reqs[i], "div", "profile") :
         /\ "style" \notin DOMAIN reqs[i].doc[k].attrs
         /\ CalledOn(reqs[i], k) = <<"DisplayTransformer">>
    /\ \A k \in ElementsOf(reqs[i], "div", "social") :
         /\ "style" \notin DOMAIN reqs[i].doc[k].attrs
         /\ CalledOn(reqs[i], k) = <<"SocialTransformer", "DisplayTransformer">>
         /\ Len(Appended(reqs[i], k)) = Len(Catalog)

C8_Witness ==
  \E i \in Rewritten :
    /\ reqs[i].template = OtherDoc
    /\ "style" \in DOMAIN reqs[i].template[3].attrs
    /\ "style" \in DOMAIN reqs[i].template[8].attrs
    /\ DOMAIN reqs[i].doc[3].attrs = {"class"}
    /\ DOMAIN reqs[i].doc[8].attrs = {}

C10_OneFetchBeforeRewriting ==
  \A i \in DOMAIN reqs :
    /\ reqs[i].responder = "html" =>
         /\ reqs[i].fetches = <<"https://static-links-page.signalnerve.workers.dev">>
         /\ reqs[i].fired # <<>> \/ reqs[i].outcome = "response" =>
              reqs[i].fetch = "resolved"
    /\ reqs[i].responder = "json" =>
         /\ reqs[i].fetches = <<>>
         /\ reqs[i].fetch = "none"

C10_Witness ==
  /\ Len(reqs) >= 2
  /\ reqs[1].responder = "json"
  /\ reqs[2].responder = "html"
  /\ reqs[2].fetch = "resolved"
  /\ reqs[2].fired # <<>>

====
